---- MODULE Spec2Model ----
(***************************************************************************)
(* A model of package detective (src/detective.go): a Detective node with  *)
(* its registration surface (WithHTTPClient, Dependency, Endpoint,         *)
(* EndpointReq), the concurrent fan-out of getState and the HTTP Handler.  *)
(*                                                                         *)
(* getState is modelled statement by statement.  Each goroutine it starts  *)
(* is a task with its own program counter; `subStates = append(subStates,  *)
(* s)` is two memory accesses (a read of the slice header, then a write of *)
(* the element and of the header) because the source takes no lock.        *)
(***************************************************************************)
EXTENDS Integers, Sequences, FiniteSets, Bags, TLC

\* ------------------------------------------------------------------ bounds
\* Registrations (dependencies + endpoints) one node may receive.
MaxReg == 2

\* ------------------------------------------------------------- value sets
\* Requests in flight at the same time: each is one run of the Handler closure.
Queries == {"r1", "r2"}

NodeName == "A"
DepNames == {"db", "cache"}

\* Transports: the &http.Client{} that New installs, and one a caller injects.
DefaultClient == "http.Client"
Clients == {DefaultClient, "custom"}

\* Raw URLs as the pieces url.Parse looks at.
GoodURL == <<"http", ":", "//b/ping">>
NoSchemeURL == <<":", "//b/ping">>
BadEscapeURL == <<"http", ":", "//b/%zz">>
Urls == {GoodURL, NoSchemeURL, BadEscapeURL}

MethodGet == "GET"
\* Requests a caller hands to EndpointReq already formed.
Requests == {[method |-> "POST", url |-> GoodURL]}

\* ------------------------------------------------------------- variables
VARIABLES
    name,          \* Detective.name
    client,        \* Detective.client
    dependencies,  \* Detective.dependencies
    endpoints,     \* Detective.endpoints
    regRet,        \* the error value the last Endpoint call returned
    qs,            \* per request: the frame of Handler/getState and its goroutines
    perIteration,  \* the build: TRUE when each loop iteration has its own variable
    crashed        \* the process died of a panic

vars == <<name, client, dependencies, endpoints, regRet, qs, perIteration, crashed>>
node == <<name, client, dependencies, endpoints>>

\* ------------------------------------------------ values and pure helpers
\* State{Name, Dependencies}: the Health State.
State(n, deps) == [Name |-> n, Dependencies |-> deps]

\* The zero value of State, what a fresh slot of make([]State, 0, n) holds.
ZeroState == State("", <<>>)

\* NewDependency(name): a Local Dependency with no sub-dependencies.
NewDependency(n) == [name |-> n]

\* Dependency.getState: a Local Dependency reports its own name; a leaf has
\* no children.
DependencyGetState(dep) == State(dep.name, <<>>)

\* The report the peer behind a URL serves from its own Handler.
PeerState(url) == State("B", <<State("cache", <<>>)>>)

\* Endpoint.getState: the request goes through the endpoint's transport; a
\* response is decoded to the peer's report, a transport failure still yields
\* a State, named for the endpoint and without children.
EndpointGetState(e, ok) ==
    IF ok THEN PeerState(e.req.url) ELSE State(e.req.url[Len(e.req.url)], <<>>)

\* url.Parse as http.NewRequest uses it: a URL that starts with the colon has
\* no scheme, and a percent sign must be followed by two hex digits.
ParseOK(url) ==
    /\ Len(url) > 0
    /\ url[1] # ":"
    /\ \A i \in 1..Len(url) : url[i] # "//b/%zz"

\* http.NewRequest(method, url, nil): (req, err).
NewRequest(method, url) ==
    IF ParseOK(url)
    THEN [err |-> FALSE, req |-> [method |-> method, url |-> url]]
    ELSE [err |-> TRUE, req |-> [method |-> "", url |-> <<>>]]

\* json.Marshal of a State, as the sequence of tokens it writes.
RECURSIVE MarshalState(_)
RECURSIVE MarshalList(_)
MarshalState(s) ==
    <<"{", "Name", s.Name, "Dependencies", "[">>
        \o MarshalList(s.Dependencies) \o <<"]", "}">>
MarshalList(ss) ==
    IF ss = <<>> THEN <<>>
    ELSE MarshalState(Head(ss))
            \o (IF Len(ss) > 1 THEN <<",">> ELSE <<>>)
            \o MarshalList(Tail(ss))

\* The bag (multiset) of the elements of a sequence.
RECURSIVE BagOf(_)
BagOf(ss) == IF ss = <<>> THEN EmptyBag ELSE BagOf(Tail(ss)) (+) SetToBag({Head(ss)})

\* ------------------------------------------------------- request frames
\* A task is one `go func() { ... }()` of getState.
\*   kind  "dep" or "ep": which loop launched it
\*   elem  the index its iteration ranged over
\*   pc    "probe" -> "append" -> "store" -> "signal" -> "end"
\*   tgt   the index of the element it called getState on (0: not yet)
\*   s     the State it obtained
\*   arr, l  the slice header of subStates it read for its append
NewTask(kind, i) ==
    [kind |-> kind, elem |-> i, pc |-> "probe", tgt |-> 0, s |-> ZeroState,
     arr |-> 0, l |-> 0]

\* A frame of Handler at rest.
IdleFrame ==
    [pc |-> "idle", nd |-> 0, T |-> 0, wg |-> 0,
     hdr |-> [arr |-> 0, len |-> 0], arrays |-> <<>>,
     snapD |-> <<>>, snapE |-> <<>>, idx |-> 0, depVar |-> 0, epVar |-> 0,
     tasks |-> <<>>, ret |-> [name |-> "", arr |-> 0, len |-> 0],
     resp |-> [status |-> 0, body |-> <<>>], dirty |-> FALSE]

\* getState has been entered and has not returned yet.
InGetState(f) ==
    f.pc \in {"arm", "rangeDeps", "loopDeps", "loopEps", "build"}

\* Goroutines of the frame that have not run to their end.
Outstanding(f) == {i \in 1..Len(f.tasks) : f.tasks[i].pc # "end"}

\* A registration that lands while a query is in flight marks that query.
MarkDirty(fs) ==
    [q \in Queries |->
        IF InGetState(fs[q]) THEN [fs[q] EXCEPT !.dirty = TRUE] ELSE fs[q]]

\* The slice a header denotes: the first len elements of its backing array.
SliceOf(f, h) == IF h.arr = 0 THEN <<>> ELSE SubSeq(f.arrays[h.arr].elems, 1, h.len)

\* The State getState returned: State{Name: d.name}.WithDependencies(subStates).
\* It shares the backing array of subStates.
RetState(f) == State(f.ret.name, SliceOf(f, f.ret))

NumReg == Len(dependencies) + Len(endpoints)

\* ---------------------------------------------------------------- Init
\* New(name): the name, the default client, no dependencies, no endpoints.
Init ==
    /\ name = NodeName
    /\ client = DefaultClient
    /\ dependencies = <<>>
    /\ endpoints = <<>>
    /\ regRet = "nil"
    /\ qs = [q \in Queries |-> IdleFrame]
    /\ perIteration \in BOOLEAN
    /\ crashed = FALSE

\* ------------------------------------------------------- registration
\* WithHTTPClient as it would be if it also handed the new client to the
\* endpoints registered so far.
WithHTTPClientRewiring(c) ==
    /\ ~crashed
    /\ client' = c
    /\ endpoints' = [i \in DOMAIN endpoints |-> [endpoints[i] EXCEPT !.client = c]]
    /\ UNCHANGED <<name, dependencies, regRet, qs, perIteration, crashed>>

\* func (d *Detective) WithHTTPClient(c Doer) *Detective
WithHTTPClient(c) ==
    /\ ~crashed
    /\ client' = c
    /\ UNCHANGED <<name, dependencies, endpoints, regRet, qs, perIteration, crashed>>

\* Dependency as it would be if it started the endpoints over.
DependencyDroppingEndpoints(n) ==
    /\ ~crashed
    /\ NumReg < MaxReg
    /\ dependencies' = Append(dependencies, NewDependency(n))
    /\ endpoints' = <<>>
    /\ qs' = MarkDirty(qs)
    /\ UNCHANGED <<name, client, regRet, perIteration, crashed>>

\* func (d *Detective) Dependency(name string) *Dependency
Dependency(n) ==
    /\ ~crashed
    /\ NumReg < MaxReg
    /\ dependencies' = Append(dependencies, NewDependency(n))
    /\ qs' = MarkDirty(qs)
    /\ UNCHANGED <<name, client, endpoints, regRet, perIteration, crashed>>

\* EndpointReq as it would be with a client of its own instead of d.client.
EndpointReqAppendDefault(req) ==
    endpoints' = Append(endpoints, [client |-> DefaultClient, req |-> req])

\* The append of EndpointReq: e := &Endpoint{client: d.client, req: *req}.
EndpointReqAppend(req) ==
    endpoints' = Append(endpoints, [client |-> client, req |-> req])

\* EndpointReq as it would be if it put the new endpoint in front.
EndpointReqFront(req) ==
    /\ ~crashed
    /\ NumReg < MaxReg
    /\ endpoints' = <<[client |-> client, req |-> req]>> \o endpoints
    /\ qs' = MarkDirty(qs)
    /\ UNCHANGED <<name, client, dependencies, regRet, perIteration, crashed>>

\* func (d *Detective) EndpointReq(req *http.Request)
EndpointReq(req) ==
    /\ ~crashed
    /\ NumReg < MaxReg
    /\ EndpointReqAppend(req)
    /\ qs' = MarkDirty(qs)
    /\ UNCHANGED <<name, client, dependencies, regRet, perIteration, crashed>>

\* Endpoint as it would be without the return of line 43: the error is
\* reported and the request is registered all the same.
EndpointIgnoringErr(url) ==
    LET r == NewRequest(MethodGet, url) IN
    /\ ~crashed
    /\ NumReg < MaxReg
    /\ EndpointReqAppend(r.req)
    /\ regRet' = (IF r.err THEN "error" ELSE "nil")
    /\ qs' = MarkDirty(qs)
    /\ UNCHANGED <<name, client, dependencies, perIteration, crashed>>

\* func (d *Detective) Endpoint(url string) error
Endpoint(url) ==
    LET r == NewRequest(MethodGet, url) IN
    /\ ~crashed
    /\ IF r.err
       THEN /\ regRet' = "error"
            /\ UNCHANGED <<name, client, dependencies, endpoints, qs,
                           perIteration, crashed>>
       ELSE /\ NumReg < MaxReg
            /\ EndpointReqAppend(r.req)
            /\ regRet' = "nil"
            /\ qs' = MarkDirty(qs)
            /\ UNCHANGED <<name, client, dependencies, perIteration, crashed>>

\* ------------------------------------------------- Handler and getState
Frame(q, f) ==
    /\ qs' = [qs EXCEPT ![q] = f]
    /\ UNCHANGED <<name, client, dependencies, endpoints, regRet, perIteration>>

\* Handler, line 83, enters getState; line 58 reads len(d.dependencies).
\* A frame is taken again only when the goroutines of its last run are gone.
HandlerStart(q) ==
    /\ ~crashed
    /\ qs[q].pc \in {"idle", "done"}
    /\ Outstanding(qs[q]) = {}
    /\ Frame(q, [IdleFrame EXCEPT !.pc = "arm", !.nd = Len(dependencies)])
    /\ UNCHANGED crashed

\* getState as it would be if it armed the WaitGroup for one goroutine more
\* than it launches.
ArmOneMore(q) ==
    LET f == qs[q]
        total == f.nd + Len(endpoints) IN
    /\ ~crashed
    /\ f.pc = "arm"
    /\ Frame(q, [f EXCEPT !.pc = "rangeDeps", !.T = total, !.wg = total + 1,
                          !.arrays = <<[cap |-> total, elems |-> <<>>]>>,
                          !.hdr = [arr |-> 1, len |-> 0]])
    /\ UNCHANGED crashed

\* getState as it would be if line 58 counted the dependencies alone.
ArmDepsOnly(q) ==
    LET f == qs[q]
        total == f.nd IN
    /\ ~crashed
    /\ f.pc = "arm"
    /\ Frame(q, [f EXCEPT !.pc = "rangeDeps", !.T = total, !.wg = total,
                          !.arrays = <<[cap |-> total, elems |-> <<>>]>>,
                          !.hdr = [arr |-> 1, len |-> 0]])
    /\ UNCHANGED crashed

\* Lines 58-61: totalDependencyLength, make([]State, 0, total), wg.Add(total).
Arm(q) ==
    LET f == qs[q]
        total == f.nd + Len(endpoints) IN
    /\ ~crashed
    /\ f.pc = "arm"
    /\ Frame(q, [f EXCEPT !.pc = "rangeDeps", !.T = total, !.wg = total,
                          !.arrays = <<[cap |-> total, elems |-> <<>>]>>,
                          !.hdr = [arr |-> 1, len |-> 0]])
    /\ UNCHANGED crashed

\* Line 62: the range expression d.dependencies is evaluated once.
RangeDeps(q) ==
    LET f == qs[q] IN
    /\ ~crashed
    /\ f.pc = "rangeDeps"
    /\ Frame(q, [f EXCEPT !.pc = "loopDeps", !.snapD = dependencies, !.idx = 1])
    /\ UNCHANGED crashed

\* Lines 62-63: one iteration assigns dep and starts a goroutine.
LaunchDep(q) ==
    LET f == qs[q] IN
    /\ ~crashed
    /\ f.pc = "loopDeps"
    /\ f.idx <= Len(f.snapD)
    /\ Frame(q, [f EXCEPT !.depVar = f.idx, !.idx = f.idx + 1,
                          !.tasks = Append(f.tasks, NewTask("dep", f.idx))])
    /\ UNCHANGED crashed

\* Line 69: the first loop is over; the range expression d.endpoints is
\* evaluated once.
RangeEps(q) ==
    LET f == qs[q] IN
    /\ ~crashed
    /\ f.pc = "loopDeps"
    /\ f.idx > Len(f.snapD)
    /\ Frame(q, [f EXCEPT !.pc = "loopEps", !.snapE = endpoints, !.idx = 1])
    /\ UNCHANGED crashed

\* Lines 69-70: one iteration assigns e and starts a goroutine.
LaunchEp(q) ==
    LET f == qs[q] IN
    /\ ~crashed
    /\ f.pc = "loopEps"
    /\ f.idx <= Len(f.snapE)
    /\ Frame(q, [f EXCEPT !.epVar = f.idx, !.idx = f.idx + 1,
                          !.tasks = Append(f.tasks, NewTask("ep", f.idx))])
    /\ UNCHANGED crashed

\* A Wait that is off by one: released while one goroutine has yet to signal.
WaitReleasedEarly(f) == f.wg <= 1

\* A Wait that sleeps until a wg.Done() wakes it, whatever the counter was
\* when it was called.
WaitReleasedBySignal(f) == f.wg = 0 /\ f.tasks # <<>>

\* wg.Wait() returns once the counter is zero.
WaitReleased(f) == f.wg = 0

\* Line 76: the second loop is over and the caller is in wg.Wait().
AtWait(f) == f.pc = "loopEps" /\ f.idx > Len(f.snapE)

\* Line 76: wg.Wait() returns.
Wait(q) ==
    LET f == qs[q] IN
    /\ ~crashed
    /\ AtWait(f)
    /\ WaitReleased(f)
    /\ Frame(q, [f EXCEPT !.pc = "build", !.idx = 0])
    /\ UNCHANGED crashed

\* Lines 77-78: s := State{Name: d.name}; return s.WithDependencies(subStates).
Return(q) ==
    LET f == qs[q] IN
    /\ ~crashed
    /\ f.pc = "build"
    /\ Frame(q, [f EXCEPT !.pc = "marshal",
                          !.ret = [name |-> name, arr |-> f.hdr.arr, len |-> f.hdr.len]])
    /\ UNCHANGED crashed

\* Handler as it would be if it wrote the body before looking at the error.
ResponsePartial(s, marshalErr) ==
    [status |-> IF marshalErr THEN 500 ELSE 200, body |-> MarshalState(s)]

\* The response Handler writes, lines 84-90: the body with the implicit
\* status 200, or the status 500 alone when json.Marshal fails.
Response(s, marshalErr) ==
    IF marshalErr
    THEN [status |-> 500, body |-> <<>>]
    ELSE [status |-> 200, body |-> MarshalState(s)]

\* Lines 84-90. The locals of the call die with it, unless a goroutine that
\* is still running holds them.
Respond(q) ==
    LET f == qs[q] IN
    /\ ~crashed
    /\ f.pc = "marshal"
    /\ \E marshalErr \in BOOLEAN :
          LET r == Response(RetState(f), marshalErr) IN
          Frame(q, IF Outstanding(f) = {}
                   THEN [IdleFrame EXCEPT !.pc = "done", !.resp = r]
                   ELSE [f EXCEPT !.pc = "done", !.resp = r])
    /\ UNCHANGED crashed

\* ------------------------------------------------------- the goroutines
Task(q, i, t) == Frame(q, [qs[q] EXCEPT !.tasks[i] = t])

\* The variable a goroutine's body names: its iteration's own copy, or the one
\* variable of the whole loop, which holds whatever the loop assigned last.
LoopVar(f, t) ==
    IF perIteration THEN t.elem
    ELSE IF t.kind = "dep" THEN f.depVar ELSE f.epVar

\* Lines 64 and 71: s := dep.getState() / s := e.getState().
Probe(q, i) ==
    LET f == qs[q]
        t == f.tasks[i]
        v == LoopVar(f, t) IN
    /\ ~crashed
    /\ i \in 1..Len(f.tasks)
    /\ t.pc = "probe"
    /\ \/ /\ t.kind = "dep"
          /\ Task(q, i, [t EXCEPT !.pc = "append", !.tgt = v,
                                  !.s = DependencyGetState(f.snapD[v])])
       \/ /\ t.kind = "ep"
          /\ \E ok \in BOOLEAN :
                Task(q, i, [t EXCEPT !.pc = "append", !.tgt = v,
                                     !.s = EndpointGetState(f.snapE[v], ok)])
    /\ UNCHANGED crashed

\* Lines 65 and 72, first half: append reads the slice header of subStates.
AppendLoad(q, i) ==
    LET f == qs[q]
        t == f.tasks[i] IN
    /\ ~crashed
    /\ i \in 1..Len(f.tasks)
    /\ t.pc = "append"
    /\ Task(q, i, [t EXCEPT !.pc = "store", !.arr = f.hdr.arr, !.l = f.hdr.len])
    /\ UNCHANGED crashed

\* growslice for a small slice: the capacity doubles.
Grow(cap) == IF cap = 0 THEN 1 ELSE 2 * cap

\* append(old[0:l], s) on backing array a of frame f: in place while the
\* capacity lasts, else into a copy; the arrays and the header it yields.
AppendTo(f, arr, l, s) ==
    LET a == f.arrays[arr] IN
    IF l < a.cap
    THEN [arrays |-> [f.arrays EXCEPT ![arr].elems =
                         IF l + 1 <= Len(a.elems)
                         THEN [a.elems EXCEPT ![l + 1] = s]
                         ELSE Append(a.elems, s)],
          hdr |-> [arr |-> arr, len |-> l + 1]]
    ELSE [arrays |-> Append(f.arrays, [cap |-> Grow(a.cap),
                                       elems |-> Append(SubSeq(a.elems, 1, l), s)]),
          hdr |-> [arr |-> Len(f.arrays) + 1, len |-> l + 1]]

\* Lines 65 and 72, second half: the element is written and the new header
\* is stored into subStates.
AppendStore(q, i) ==
    LET f == qs[q]
        t == f.tasks[i]
        r == AppendTo(f, t.arr, t.l, t.s) IN
    /\ ~crashed
    /\ i \in 1..Len(f.tasks)
    /\ t.pc = "store"
    /\ Frame(q, [f EXCEPT !.arrays = r.arrays, !.hdr = r.hdr,
                          !.tasks[i] = [t EXCEPT !.pc = "signal", !.arr = 0, !.l = 0]])
    /\ UNCHANGED crashed

\* A goroutine as it would be without its wg.Done().
DoneWithoutSignal(q, i) ==
    /\ ~crashed
    /\ i \in 1..Len(qs[q].tasks)
    /\ qs[q].tasks[i].pc = "signal"
    /\ Frame(q, [qs[q] EXCEPT !.tasks[i].pc = "end"])
    /\ UNCHANGED crashed

\* A goroutine as it would be if it signalled twice, as with a deferred
\* wg.Done() next to the explicit one.
DoneTwice(q, i) ==
    LET f == qs[q]
        t == f.tasks[i] IN
    /\ ~crashed
    /\ i \in 1..Len(f.tasks)
    /\ t.pc = "signal"
    /\ Frame(q, [f EXCEPT !.wg = f.wg - 2, !.tasks[i] = [t EXCEPT !.pc = "end"]])
    /\ crashed' = (f.wg - 2 < 0)

\* Lines 66 and 73: wg.Done(). A counter below zero panics.
Done(q, i) ==
    LET f == qs[q]
        t == f.tasks[i] IN
    /\ ~crashed
    /\ i \in 1..Len(f.tasks)
    /\ t.pc = "signal"
    /\ Frame(q, [f EXCEPT !.wg = f.wg - 1, !.tasks[i] = [t EXCEPT !.pc = "end"]])
    /\ crashed' = (f.wg - 1 < 0)

\* ---------------------------------------------------------------- Next
\* No request is in flight and no goroutine of an earlier one is left.
Quiescent ==
    \A q \in Queries : qs[q].pc \in {"idle", "done"} /\ Outstanding(qs[q]) = {}

\* The registration of dependencies and endpoints, with well-formed
\* arguments.
Register ==
    \/ \E n \in DepNames : Dependency(n)
    \/ Endpoint(GoodURL)
    \/ \E r \in Requests : EndpointReq(r)

Caller(q) ==
    \/ HandlerStart(q)
    \/ Arm(q)
    \/ RangeDeps(q)
    \/ LaunchDep(q)
    \/ RangeEps(q)
    \/ LaunchEp(q)
    \/ Wait(q)
    \/ Return(q)
    \/ Respond(q)

Goroutine(q, i) ==
    \/ Probe(q, i)
    \/ AppendLoad(q, i)
    \/ AppendStore(q, i)
    \/ Done(q, i)

\* One request at a time is served; the setup code registers between
\* requests, as the package expects of its callers.
Next ==
    \/ Quiescent /\ Register
    \/ Caller("r1")
    \/ \E i \in 1..MaxReg : Goroutine("r1", i)

Spec == Init /\ [][Next]_vars

\* The registration surface alone, malformed URLs included.
NextReg ==
    \/ \E c \in Clients : WithHTTPClient(c)
    \/ \E n \in DepNames : Dependency(n)
    \/ \E u \in Urls : Endpoint(u)
    \/ \E r \in Requests : EndpointReq(r)

SpecReg == Init /\ [][NextReg]_vars

\* Registration that does not wait for the request in flight: nothing in the
\* package stops a caller from registering while getState runs.
NextRace ==
    \/ Dependency("db")
    \/ Endpoint(GoodURL)
    \/ Caller("r1")
    \/ \E i \in 1..MaxReg : Goroutine("r1", i)

SpecRace == Init /\ [][NextRace]_vars

\* Registration between requests, and requests under the scheduler's
\* fairness: the caller and every goroutine that can take a step eventually
\* take it; no probe stalls forever.
NextFair ==
    \/ Quiescent /\ (Dependency("db") \/ Endpoint(GoodURL))
    \/ Caller("r1")
    \/ \E i \in 1..MaxReg : Goroutine("r1", i)

SpecFair ==
    /\ Init
    /\ [][NextFair]_vars
    /\ WF_vars(Caller("r1"))
    /\ \A i \in 1..MaxReg : WF_vars(Goroutine("r1", i))

\* Nodes whose registration is finished: two dependencies, or one dependency
\* and one endpoint.
Registered ==
    { <<<<NewDependency("db"), NewDependency("cache")>>, <<>>>>,
      <<<<NewDependency("db")>>,
        <<[client |-> DefaultClient, req |-> NewRequest(MethodGet, GoodURL).req]>>>> }

InitConc ==
    /\ name = NodeName
    /\ client = DefaultClient
    /\ \E n \in Registered : dependencies = n[1] /\ endpoints = n[2]
    /\ regRet = "nil"
    /\ qs = [q \in Queries |-> IdleFrame]
    /\ perIteration \in BOOLEAN
    /\ crashed = FALSE

\* Several requests served at the same time by a node registered before.
NextConc ==
    \/ \E q \in Queries : Caller(q)
    \/ \E q \in Queries : \E i \in 1..MaxReg : Goroutine(q, i)

SpecConc == InitConc /\ [][NextConc]_vars

\* Requests served one after the other, by the same registered node: a request
\* starts only when no other is in flight.
NextSeq ==
    \/ \E q \in Queries : (Quiescent \/ qs[q].pc \notin {"idle", "done"}) /\ Caller(q)
    \/ \E q \in Queries : \E i \in 1..MaxReg : Goroutine(q, i)

SpecSeq == InitConc /\ [][NextSeq]_vars

\* ------------------------------------------------------------ the claims
\* getState has returned its State to Handler, which has not answered yet.
Returned(f) == f.pc = "marshal"

\* The children of the State getState returned.
Children(f) == RetState(f).Dependencies

\* How many elements of a sequence lie in a set.
CountIn(seq, S) == Cardinality({i \in DOMAIN seq : seq[i] \in S})

\* The States a probe of an endpoint can yield.
EndpointStates(e) == {EndpointGetState(e, ok) : ok \in BOOLEAN}

\* Every element the call ranged over is in the report as often as it is
\* registered, and nothing else is.
ReportsAll(f) ==
    /\ Len(Children(f)) = Len(f.snapD) + Len(f.snapE)
    /\ \A i \in DOMAIN f.snapD :
          CountIn(Children(f), {DependencyGetState(f.snapD[i])})
              = CountIn(f.snapD, {f.snapD[i]})
    /\ \A j \in DOMAIN f.snapE :
          CountIn(Children(f), EndpointStates(f.snapE[j]))
              = Cardinality({k \in DOMAIN f.snapE :
                                EndpointStates(f.snapE[k]) = EndpointStates(f.snapE[j])})

\* C1: with no registration during the query, the State one getState call
\* returns has exactly T children, T the number of registered dependencies and
\* endpoints: no append into subStates is lost.
C1_ChildrenCountIsT ==
    \A q \in Queries :
        (Returned(qs[q]) /\ ~qs[q].dirty)
            => Len(Children(qs[q])) = Len(dependencies) + Len(endpoints)

\* C2: the i-th goroutine of a loop probes the i-th element the loop ranged
\* over, so no element is probed twice or skipped.
C2_TaskProbesOwnElement ==
    \A q \in Queries : \A i \in DOMAIN qs[q].tasks :
        qs[q].tasks[i].pc # "probe" => qs[q].tasks[i].tgt = qs[q].tasks[i].elem

\* C3: when two getState calls have run at the same time on a node whose
\* registration is finished, both reports hold every registered dependency
\* and endpoint exactly once.
C3_ConcurrentReportsComplete ==
    \A q1, q2 \in Queries :
        (q1 # q2 /\ Returned(qs[q1]) /\ Returned(qs[q2]))
            => ReportsAll(qs[q1]) /\ ReportsAll(qs[q2])

\* The States of failed probes: named for the endpoint, without children.
FailureStates(f) == {EndpointGetState(f.snapE[j], FALSE) : j \in DOMAIN f.snapE}

\* C4: getState returns a State named after the node whatever probes fail, and
\* every failed probe is one child of it.
C4_FailedProbeIsOneChild ==
    \A q \in Queries :
        Returned(qs[q]) =>
            /\ RetState(qs[q]).Name = name
            /\ CountIn(Children(qs[q]), FailureStates(qs[q]))
                 = Cardinality({i \in DOMAIN qs[q].tasks :
                                   qs[q].tasks[i].s \in FailureStates(qs[q])})

\* The call is past wg.Wait(): it is building its State, has returned it, or
\* has answered.
PastWait(f) == f.pc \in {"build", "marshal", "done"}

\* C5, as claimed: in no reachable state is getState past wg.Wait() while one
\* of its goroutines is still outstanding.
C5_Original ==
    \A q \in Queries : PastWait(qs[q]) => Outstanding(qs[q]) = {}

\* C5, amended: when no registration landed during the call, getState is past
\* wg.Wait() only after every goroutine it launched, T of them, has run to its
\* end; and while one is outstanding the caller cannot leave wg.Wait().
C5_ReturnsAfterAllTasks ==
    \A q \in Queries :
        LET f == qs[q] IN
        ~f.dirty =>
            /\ PastWait(f) => Outstanding(f) = {}
            /\ f.pc \in {"build", "marshal"} => Len(f.tasks) = f.T
            /\ (AtWait(f) /\ Outstanding(f) # {}) => ~ENABLED Wait(q)

\* A call with two goroutines is past wg.Wait(), both having finished.
C5_Witness ==
    \E q \in Queries :
        /\ qs[q].pc = "build"
        /\ ~qs[q].dirty
        /\ qs[q].T = 2
        /\ Len(qs[q].tasks) = 2

\* C6: under fair scheduling, with every probe completing and no registration
\* during the query, a getState call eventually returns, whatever T is.
C6_EventuallyReturns ==
    InGetState(qs["r1"]) ~> Returned(qs["r1"])

\* A call with two goroutines has returned, no registration having landed.
C6_Witness ==
    /\ Returned(qs["r1"])
    /\ ~qs["r1"].dirty
    /\ qs["r1"].T = 2

\* C7: Endpoint(url) with a malformed URL returns the error and leaves the
\* node as it was; with a well-formed URL it returns nil and appends one
\* endpoint holding a GET request for that URL and the node's transport.
C7_EndpointErrorLeavesNode ==
    [][\A u \in Urls :
          Endpoint(u) =>
              IF u \in {NoSchemeURL, BadEscapeURL}
              THEN /\ regRet' = "error"
                   /\ UNCHANGED <<name, client, dependencies, endpoints, qs, crashed>>
              ELSE /\ regRet' = "nil"
                   /\ endpoints' = Append(endpoints,
                          [client |-> client, req |-> [method |-> "GET", url |-> u]])
                   /\ UNCHANGED <<name, client, dependencies>>]_vars

\* An Endpoint call has failed on a node that holds an endpoint registered
\* by an earlier call.
C7_Witness ==
    /\ regRet = "error"
    /\ Len(endpoints) = 1
    /\ endpoints[1].req = [method |-> "GET", url |-> GoodURL]

\* C8: a request enters getState once, and Handler answers it either with
\* status 200 and the serialized State getState returned, or with status 500
\* and no body.
C8_HandlerResponse ==
    [][\A q \in Queries :
          LET f == qs[q]
              g == qs'[q] IN
          /\ (g.pc = "arm" /\ f.pc # "arm") => f.pc \in {"idle", "done"}
          /\ (g.pc = "done" /\ f.pc # "done") =>
                /\ f.pc = "marshal"
                /\ \/ /\ g.resp.status = 200
                      /\ g.resp.body = MarshalState(RetState(f))
                      /\ g.resp.body[1] = "{"
                      /\ g.resp.body[3] = name
                   \/ /\ g.resp.status = 500
                      /\ g.resp.body = <<>>
          /\ g.resp # f.resp => (g.pc = "done" \/ g.resp = IdleFrame.resp)]_vars

\* A request has been answered with status 200 and a report with children.
C8_Witness ==
    \E q \in Queries :
        /\ qs[q].pc = "done"
        /\ qs[q].resp.status = 200
        /\ Len(qs[q].resp.body) > 7

\* The names of the children in the body of a response whose children are
\* leaves.
NamesIn(body) == {body[i] : i \in {j \in 4..Len(body) : body[j - 1] = "Name"}}

\* C9: a query on the same registrations, after a query that has completed,
\* reports the same set of children (dependencies only, whose probes have one
\* outcome).
C9_SameChildrenEveryQuery ==
    \A q1, q2 \in Queries :
        (/\ q1 # q2
         /\ qs[q1].pc = "done"
         /\ qs[q1].resp.status = 200
         /\ Returned(qs[q2])
         /\ endpoints = <<>>)
            => NamesIn(qs[q1].resp.body)
                 = {Children(qs[q2])[i].Name : i \in DOMAIN Children(qs[q2])}

\* Every registered endpoint holds the transport the node holds now.
AllShare == \A i \in DOMAIN endpoints : endpoints[i].client = client

NextLife ==
    \/ Quiescent /\ WithHTTPClient("custom")
    \/ Quiescent /\ Dependency("db")
    \/ Quiescent /\ Endpoint(GoodURL)
    \/ Quiescent /\ \E r \in Requests : EndpointReq(r)
    \/ Caller("r1")
    \/ \E i \in 1..MaxReg : Goroutine("r1", i)

SpecLife == Init /\ [][NextLife]_vars

\* C11: an endpoint, once registered, keeps its request and its transport:
\* no step (WithHTTPClient, a further registration, a step of a query) changes
\* an endpoint that is registered, or removes it.
C11_EndpointImmutable ==
    [][\A i \in DOMAIN endpoints :
          /\ i \in DOMAIN endpoints'
          /\ endpoints'[i] = endpoints[i]]_vars

\* An endpoint still holds the transport it was registered with after the
\* node was given another one, a later endpoint was registered and a query
\* has returned.
C11_Witness ==
    /\ Len(endpoints) = 2
    /\ endpoints[1].client = DefaultClient
    /\ endpoints[2].client = "custom"
    /\ endpoints[1].req.method = "GET"
    /\ Returned(qs["r1"])

\* The registration half of C12, which the code keeps: Dependency(n) refuses
\* no name, and appends exactly one Local Dependency of that name at the end.
DependencyAppendsOne ==
    [][\A n \in DepNames :
          /\ (~crashed /\ NumReg < MaxReg) => ENABLED Dependency(n)
          /\ Dependency(n) =>
                /\ dependencies' = Append(dependencies, NewDependency(n))
                /\ Len(dependencies') = Len(dependencies) + 1]_vars

\* C12: Dependency(name) validates nothing, so a name may be registered twice,
\* and a later query reports one child per registration: for every name, as
\* many children of that name as there are registrations of it.
C12_OneChildPerRegistration ==
    \A q \in Queries :
       Returned(qs[q]) =>
          \A n \in DepNames :
             CountIn(Children(qs[q]), {DependencyGetState(NewDependency(n))})
                = CountIn(dependencies, {NewDependency(n)})

C14_RegistrationRaces ==
    /\ \A q \in Queries :
          LET f == qs[q] IN
          /\ Len(f.tasks) > f.T => f.dirty
          /\ f.wg < 0 => f.dirty /\ crashed
          /\ (PastWait(f) /\ Outstanding(f) # {}) => f.dirty
          /\ (AtWait(f) \/ f.pc \in {"build", "marshal"}) => Len(f.tasks) >= f.T
    /\ crashed => \E q \in Queries : qs[q].wg < 0 /\ Len(qs[q].tasks) > qs[q].T

\* Dependency landed between line 58 and line 62: the call armed for one
\* goroutine, launched two, and the second wg.Done() drove the counter below
\* zero.
C14_Witness ==
    \E q \in Queries :
        /\ qs[q].dirty
        /\ qs[q].T = 1
        /\ Len(qs[q].tasks) = 2
        /\ qs[q].wg = -1
        /\ crashed

\* The goroutines of a frame that have stored into subStates, and those that
\* have called wg.Done().
Stored(f) == {i \in DOMAIN f.tasks : f.tasks[i].pc \in {"signal", "end"}}
Signalled(f) == {i \in DOMAIN f.tasks : f.tasks[i].pc = "end"}

\* subStates and wg are locals of one getState call (lines 59-60): a call's
\* slice holds no more elements than its own goroutines stored, its counter
\* is down by exactly its own goroutines' signals, and a step of one request
\* leaves the frame of the other as it is.
QueriesIsolated ==
    [][\A q \in Queries :
          /\ qs[q].hdr.len <= Cardinality(Stored(qs[q]))
          /\ qs[q].wg = qs[q].T - Cardinality(Signalled(qs[q]))
          /\ qs'[q] # qs[q] => \A q2 \in Queries \ {q} : qs'[q2] = qs[q2]]_vars

\* C15: the goroutines of a node share no mutable state but the subStates of
\* their own call: each call accounts for its own appends and signals alone,
\* and the variable a goroutine is about to read its element from holds that
\* goroutine's own element, whatever the loop and the other goroutines did
\* since it was launched.
C15_NothingElseShared ==
    \A q \in Queries :
        LET f == qs[q] IN
        /\ f.hdr.len <= Cardinality(Stored(f))
        /\ f.wg = f.T - Cardinality(Signalled(f))
        /\ \A i \in DOMAIN f.tasks :
              f.tasks[i].pc = "probe" => LoopVar(f, f.tasks[i]) = f.tasks[i].elem

\* A goroutine that has not finished its append: it has yet to probe, to read
\* the slice header, or to store.
PendingAppend(f) ==
    {i \in DOMAIN f.tasks : f.tasks[i].pc \in {"probe", "append", "store"}}

\* subStates is still the slice the returned State was assembled from.
Unmodified(f) ==
    /\ f.hdr = [arr |-> f.ret.arr, len |-> f.ret.len]
    /\ Children(f) = SubSeq(f.arrays[f.hdr.arr].elems, 1, f.hdr.len)

\* The body of a goroutine in program order, lines 64-66 and 71-73.
TaskOrder ==
    {<<"probe", "append">>, <<"append", "store">>, <<"store", "signal">>,
     <<"signal", "end">>}

\* The goroutines that signal in a step from frame f to frame g.
Signalling(f, g) ==
    {i \in DOMAIN f.tasks \cap DOMAIN g.tasks :
        f.tasks[i].pc = "signal" /\ g.tasks[i].pc = "end"}

\* C16, as claimed: once wg.Wait() has released the caller no goroutine of the
\* call has a pending append, and subStates is not modified after the State
\* was assembled from it.
C16_Original ==
    \A q \in Queries :
        /\ PastWait(qs[q]) => PendingAppend(qs[q]) = {}
        /\ Returned(qs[q]) => Unmodified(qs[q])

\* C16, amended: every goroutine appends before it signals and signals
\* exactly once, each signal taking the counter down by one; and when no
\* registration landed during the call, no goroutine has a pending append
\* once wg.Wait() has released the caller, and subStates and its backing
\* arrays stay as they were when the State was assembled.
C16_AppendsBeforeSignal ==
    /\ [](\A q \in Queries :
             ~qs[q].dirty =>
                /\ PastWait(qs[q]) => PendingAppend(qs[q]) = {}
                /\ Returned(qs[q]) => Unmodified(qs[q]))
    /\ [][\A q \in Queries :
             LET f == qs[q]
                 g == qs'[q] IN
             /\ \A i \in DOMAIN f.tasks \cap DOMAIN g.tasks :
                   \/ g.tasks[i].pc = f.tasks[i].pc
                   \/ <<f.tasks[i].pc, g.tasks[i].pc>> \in TaskOrder
             /\ Signalling(f, g) # {} =>
                   /\ Cardinality(Signalling(f, g)) = 1
                   /\ g.wg = f.wg - 1
             /\ (g.wg # f.wg /\ g.pc = f.pc) => Signalling(f, g) # {}
             /\ (Returned(f) /\ Returned(g) /\ ~f.dirty) =>
                   g.arrays = f.arrays /\ g.hdr = f.hdr]_vars

\* A call no registration raced with has returned a State assembled from two
\* appends that both took place.
C16_Witness ==
    \E q \in Queries :
        /\ Returned(qs[q])
        /\ ~qs[q].dirty
        /\ Len(qs[q].tasks) = 2
        /\ qs[q].hdr.len = 2

\* wg has been armed by the call and the call has not answered yet.
Armed(f) == f.pc \in {"rangeDeps", "loopDeps", "loopEps", "build", "marshal"}

\* C17: when no registration landed during the call, the counter of its
\* WaitGroup is the number of its T goroutines, launched or yet to be
\* launched, that have not signalled: T when armed, never below zero, and
\* zero exactly when all T have been launched and have run to their end.
C17_CounterIsUnsignalled ==
    \A q \in Queries :
        LET f == qs[q] IN
        (Armed(f) /\ ~f.dirty) =>
            /\ f.wg = f.T - Cardinality(Signalled(f))
            /\ f.wg >= 0
            /\ f.pc = "rangeDeps" => f.wg = f.T
            /\ f.wg = 0 <=> (Len(f.tasks) = f.T /\ Outstanding(f) = {})

\* Two goroutines were armed for; one has signalled, the other has not.
C17_Witness ==
    \E q \in Queries :
        /\ AtWait(qs[q])
        /\ ~qs[q].dirty
        /\ qs[q].T = 2
        /\ qs[q].wg = 1
        /\ Cardinality(Signalled(qs[q])) = 1
        /\ Cardinality(Outstanding(qs[q])) = 1

\* The States the goroutines of a call obtained, in launch order.
Results(f) == [i \in DOMAIN f.tasks |-> f.tasks[i].s]

\* C18: the State getState returns carries the node's name, and its children
\* are the States its goroutines obtained, in the order of their appends:
\* whatever that order, the multiset of the children is the multiset of the
\* probe results.
C18_ChildrenAreResults ==
    \A q \in Queries :
        (Returned(qs[q]) /\ ~qs[q].dirty) =>
            /\ RetState(qs[q]).Name = name
            /\ BagOf(Children(qs[q])) = BagOf(Results(qs[q]))

\* C19: what each registration call leaves alone. Dependency keeps the
\* endpoints, the name and the transport; Endpoint and EndpointReq keep the
\* dependencies, the name and the transport; WithHTTPClient sets the transport
\* and keeps the name and both sequences.
C19_RegistrationFrames ==
    [][/\ \A n \in DepNames :
             Dependency(n) => UNCHANGED <<endpoints, name, client>>
       /\ \A u \in Urls :
             Endpoint(u) => UNCHANGED <<dependencies, name, client>>
       /\ \A r \in Requests :
             EndpointReq(r) => UNCHANGED <<dependencies, name, client>>
       /\ \A c \in Clients :
             WithHTTPClient(c) =>
                client' = c /\ UNCHANGED <<name, dependencies, endpoints>>]_vars

\* Every kind of registration call has acted on the node.
C19_Witness ==
    /\ Len(dependencies) = 1
    /\ Len(endpoints) = 1
    /\ endpoints[1].req \in Requests
    /\ endpoints[1].client = DefaultClient
    /\ client = "custom"
    /\ name = NodeName
    /\ regRet = "error"

\* C20: a node with nothing registered (T = 0), queried with no registration
\* during the call, launches no goroutine, passes both loops and wg.Wait()
\* without blocking, and returns the State of its own name without children.
C20_EmptyNode ==
    \A q \in Queries :
        LET f == qs[q] IN
        (Armed(f) /\ f.T = 0 /\ ~f.dirty) =>
            /\ f.tasks = <<>>
            /\ f.wg = 0
            /\ f.pc = "rangeDeps" => ENABLED RangeDeps(q)
            /\ f.pc = "loopDeps" => ENABLED RangeEps(q)
            /\ f.pc = "loopEps" => AtWait(f) /\ ENABLED Wait(q)
            /\ f.pc = "build" => ENABLED Return(q)
            /\ Returned(f) => RetState(f) = State(name, <<>>)

\* The empty node has returned its State.
C20_Witness ==
    \E q \in Queries :
        /\ Returned(qs[q])
        /\ qs[q].T = 0
        /\ ~qs[q].dirty
        /\ NumReg = 0
        /\ RetState(qs[q]) = State(NodeName, <<>>)

====
